---- MODULE Spec2Model ----
(***************************************************************************)
(* Model of the guard/autofill engine of vite-plugin-interface-to-object   *)
(* (src/plugins/SchemeGuard.ts) run against schema descriptors of the      *)
(* shape the parser and serializer (src/plugins/InterfaceSchemaParser.ts)  *)
(* produce.  Target values live in an explicit heap so that object         *)
(* identity, aliasing and in-place mutation are observable.                *)
(***************************************************************************)
EXTENDS Integers, Sequences, FiniteSets, TLC

VARIABLES heap, target, schema, hint, sets, phase, r1, r2, declarations,
          sourceFileAst, parsedInterfaces, artifact,
          memberNode, rawAttributes, parsedProperty,
          interfaceSourceCodeMap, rewritten, loaded

\* the parser at work on one source file
parserVars == <<sourceFileAst, parsedInterfaces, artifact>>
\* the parser at work on one member of a declaration
memberVars == <<memberNode, rawAttributes, parsedProperty>>
\* the plugin
pluginVars == <<interfaceSourceCodeMap, rewritten, loaded>>
buildVars == <<parserVars, memberVars, pluginVars>>
guardVars == <<heap, target, schema, hint, sets, phase, r1, r2, declarations>>

vars == <<guardVars, buildVars>>

---------------------------------------------------------------------------
(* Bounds of the exploration                                               *)

\* objects and arrays the value-fetch host may allocate for one target
MaxObjs == 2
\* property writes / array pushes the host performs while building a target
MaxSets == 2
\* call-stack budget of one top-level guard call, counted in nested
\* applySchemaGuard frames; exhausting it is the engine's RangeError
MaxDepth == 10
\* levels to which two value graphs are unfolded when they are compared
MaxTree == 8

---------------------------------------------------------------------------
(* Runtime values                                                          *)

Undefined == [t |-> "undefined"]
Null == [t |-> "null"]
Str(s) == [t |-> "string", s |-> s]
Num(n) == [t |-> "number", n |-> n]
Bool(b) == [t |-> "boolean", b |-> b]
Big(g) == [t |-> "bigint", g |-> g]
Ref(a) == [t |-> "ref", a |-> a]

NoProps == [k \in {} |-> Undefined]
EmptyObject == [isArray |-> FALSE, elems |-> <<>>, props |-> NoProps]
EmptyArray == [isArray |-> TRUE, elems |-> <<>>, props |-> NoProps]

\* the typeof operator
TypeOf(v) == IF v.t \in {"ref", "null"} THEN "object" ELSE v.t

\* Array.isArray
IsArrayValue(h, v) == v.t = "ref" /\ h[v.a].isArray

Put(props, key, v) ==
    [k \in (DOMAIN props) \cup {key} |-> IF k = key THEN v ELSE props[k]]

\* variant: the first alternative taken as the fallback, at(0) for at(-1)
LastAsFirst(s) == s[1]

Last(s) == s[Len(s)]

---------------------------------------------------------------------------
(* Schema descriptors: const.ts and the parser's attribute constructors    *)

StringKeyword == "string_keyword"
NumberKeyword == "number_keyword"
BooleanKeyword == "boolean_keyword"
UndefinedKeyword == "undefined_keyword"
NullKeyword == "null_keyword"
AnyKeyword == "any_keyword"
UnknownKeyword == "unknown_keyword"
NeverKeyword == "never_keyword"
BigKeyword == "big_keyword"
SymbolKeyword == "symbol_keyword"

KeyWord ==
    {StringKeyword, NumberKeyword, BooleanKeyword, UndefinedKeyword,
     NullKeyword, AnyKeyword, UnknownKeyword, NeverKeyword, BigKeyword,
     SymbolKeyword}

TypeReference == "typeReference"
TypeLiteral == "typeLiteral"
BaseType == "baseType"
Alias == "alias"

InterfaceDeclaration == "interface"
TypeLiteralDeclaration == "typeLiteral"
TypeAliasDeclaration == "typeAlias"
\* an inline object schema carries no _DeclarationTypeKey
NoDeclarationType == "none"

createBaseAttr(kw) == [value |-> kw, isArray |-> FALSE, valueType |-> BaseType]
createLiteralAttr(lit) == [value |-> lit, isArray |-> FALSE, valueType |-> Alias]
createTypeRefAttr(name) == [value |-> name, isArray |-> FALSE, valueType |-> TypeReference]
createTypeLiteralAttr(props) == [value |-> props, isArray |-> FALSE, valueType |-> TypeLiteral]
createArrayAttr(elementTypes) ==
    [i \in DOMAIN elementTypes |-> [elementTypes[i] EXCEPT !.isArray = TRUE]]

SchemaProperty(key, isOptional, attribute) ==
    [key |-> key, isOptional |-> isOptional, attribute |-> attribute]

\* the properties as parsePropertyNode records them when every member of the
\* text carries a question token where it had none, and none where it had one
RECURSIVE flipOptional(_)
flipOptional(props) ==
    [i \in DOMAIN props |->
        [props[i] EXCEPT
            !.isOptional = ~@,
            !.attribute = [j \in DOMAIN @ |->
                IF @[j].valueType = TypeLiteral
                THEN [@[j] EXCEPT !.value = flipOptional(@)]
                ELSE @[j]]]]

\* the schema module ds, the declarations in names written with the flags flipped
OptionalDeclarations(ds, names) ==
    [n \in DOMAIN ds |->
        IF n \in names THEN [ds[n] EXCEPT !.props = flipOptional(@)] ELSE ds[n]]

---------------------------------------------------------------------------
(* The declarations under guard: what the parser yields for                *)
(*                                                                         *)
(*   interface A { b: B }                                                  *)
(*   interface B { a: A }                                                  *)
(*   interface App { first: A }                                            *)
(*   interface S { p: P; q: P; name: string | 'default' }                  *)
(*   type P = { x: number | 1 }                                            *)
(*   interface User { name: string | 'default'; age: number | 1;           *)
(*                    tags: string[] }                                     *)
(*   type Role = 'admin' | 'user'                                          *)
(*   type UserAlias = string | 'default'                                   *)
(*   interface M { m: {x: number} | {y: string} }                          *)
(*   interface Fam { own: P | string; pet: string | P; kids: P[] }         *)
(*   interface Cfg { age: string | 'none'; user: User }                    *)
(*   type Defaults = { s: string; n: number; f: boolean; u: undefined;     *)
(*       z: null; v: any; w: unknown; e: never; g: bigint; y: symbol;      *)
(*       l: 'admin'; la: 'admin'[]; o: {x: number | 1}; oa: {x: number}[]; *)
(*       r: P; al: Role }                                                  *)

Declarations ==
    [A |-> [declarationType |-> InterfaceDeclaration, props |-> <<
              SchemaProperty("b", FALSE, <<createTypeRefAttr("B")>>) >>],
     B |-> [declarationType |-> InterfaceDeclaration, props |-> <<
              SchemaProperty("a", FALSE, <<createTypeRefAttr("A")>>) >>],
     App |-> [declarationType |-> InterfaceDeclaration, props |-> <<
              SchemaProperty("first", FALSE, <<createTypeRefAttr("A")>>) >>],
     S |-> [declarationType |-> InterfaceDeclaration, props |-> <<
              SchemaProperty("p", FALSE, <<createTypeRefAttr("P")>>),
              SchemaProperty("q", FALSE, <<createTypeRefAttr("P")>>),
              SchemaProperty("name", FALSE,
                  <<createBaseAttr(StringKeyword), createLiteralAttr(Str("default"))>>) >>],
     P |-> [declarationType |-> TypeLiteralDeclaration, props |-> <<
              SchemaProperty("x", FALSE,
                  <<createBaseAttr(NumberKeyword), createLiteralAttr(Num(1))>>) >>],
     User |-> [declarationType |-> InterfaceDeclaration, props |-> <<
              SchemaProperty("name", FALSE,
                  <<createBaseAttr(StringKeyword), createLiteralAttr(Str("default"))>>),
              SchemaProperty("age", FALSE,
                  <<createBaseAttr(NumberKeyword), createLiteralAttr(Num(1))>>),
              SchemaProperty("tags", FALSE,
                  createArrayAttr(<<createBaseAttr(StringKeyword)>>)) >>],
     Role |-> [declarationType |-> TypeAliasDeclaration, props |-> <<
              SchemaProperty("Role", FALSE,
                  <<createLiteralAttr(Str("admin")), createLiteralAttr(Str("user"))>>) >>],
     UserAlias |-> [declarationType |-> TypeAliasDeclaration, props |-> <<
              SchemaProperty("UserAlias", FALSE,
                  <<createBaseAttr(StringKeyword), createLiteralAttr(Str("default"))>>) >>],
     M |-> [declarationType |-> InterfaceDeclaration, props |-> <<
              SchemaProperty("m", FALSE,
                  <<createTypeLiteralAttr(<<SchemaProperty("x", FALSE,
                        <<createBaseAttr(NumberKeyword)>>)>>),
                    createTypeLiteralAttr(<<SchemaProperty("y", FALSE,
                        <<createBaseAttr(StringKeyword)>>)>>)>>) >>],
     Fam |-> [declarationType |-> InterfaceDeclaration, props |-> <<
              SchemaProperty("own", FALSE,
                  <<createTypeRefAttr("P"), createBaseAttr(StringKeyword)>>),
              SchemaProperty("pet", FALSE,
                  <<createBaseAttr(StringKeyword), createTypeRefAttr("P")>>),
              SchemaProperty("kids", FALSE, createArrayAttr(<<createTypeRefAttr("P")>>)) >>],
     Cfg |-> [declarationType |-> InterfaceDeclaration, props |-> <<
              SchemaProperty("age", FALSE,
                  <<createBaseAttr(StringKeyword), createLiteralAttr(Str("none"))>>),
              SchemaProperty("user", FALSE, <<createTypeRefAttr("User")>>) >>],
     Defaults |-> [declarationType |-> TypeLiteralDeclaration, props |-> <<
              SchemaProperty("s", FALSE, <<createBaseAttr(StringKeyword)>>),
              SchemaProperty("n", FALSE, <<createBaseAttr(NumberKeyword)>>),
              SchemaProperty("f", FALSE, <<createBaseAttr(BooleanKeyword)>>),
              SchemaProperty("u", FALSE, <<createBaseAttr(UndefinedKeyword)>>),
              SchemaProperty("z", FALSE, <<createBaseAttr(NullKeyword)>>),
              SchemaProperty("v", FALSE, <<createBaseAttr(AnyKeyword)>>),
              SchemaProperty("w", FALSE, <<createBaseAttr(UnknownKeyword)>>),
              SchemaProperty("e", FALSE, <<createBaseAttr(NeverKeyword)>>),
              SchemaProperty("g", FALSE, <<createBaseAttr(BigKeyword)>>),
              SchemaProperty("y", FALSE, <<createBaseAttr(SymbolKeyword)>>),
              SchemaProperty("l", FALSE, <<createLiteralAttr(Str("admin"))>>),
              SchemaProperty("la", FALSE,
                  createArrayAttr(<<createLiteralAttr(Str("admin"))>>)),
              SchemaProperty("o", FALSE,
                  <<createTypeLiteralAttr(<<SchemaProperty("x", FALSE,
                        <<createBaseAttr(NumberKeyword), createLiteralAttr(Num(1))>>)>>)>>),
              SchemaProperty("oa", FALSE,
                  createArrayAttr(<<createTypeLiteralAttr(<<SchemaProperty("x", FALSE,
                        <<createBaseAttr(NumberKeyword)>>)>>)>>)),
              SchemaProperty("r", FALSE, <<createTypeRefAttr("P")>>),
              SchemaProperty("al", FALSE, <<createTypeRefAttr("Role")>>) >>]]

DeclNames == DOMAIN Declarations

\* Object.entries of the object literal propsToString writes for props: a
\* key written twice keeps its first position and its last value
RECURSIVE objectEntries(_, _)
objectEntries(entries, props) ==
    IF Len(props) = 0 THEN entries
    ELSE IF \E i \in DOMAIN entries : entries[i].key = Head(props).key
         THEN LET i == CHOOSE j \in DOMAIN entries : entries[j].key = Head(props).key
              IN  objectEntries([entries EXCEPT ![i] = Head(props)], Tail(props))
         ELSE objectEntries(Append(entries, Head(props)), Tail(props))

\* the object the binding name of a loaded schema module ds evaluates to
DeclSchemaIn(ds, name) ==
    [declarationType |-> ds[name].declarationType,
     entries |-> objectEntries(<<>>, ds[name].props)]

\* the object a serialized declaration binding evaluates to
DeclSchema(name) == DeclSchemaIn(Declarations, name)

\* the object an inline typeLiteral attribute's value evaluates to
InlineSchema(props) ==
    [declarationType |-> NoDeclarationType, entries |-> objectEntries(<<>>, props)]

\* the keys the host writes when it builds a target for a declaration
HostKeys ==
    [A |-> {"a", "b"}, B |-> {"a", "b"}, App |-> {"first", "a", "b"},
     S |-> {"p", "q", "name", "x"},
     P |-> {"x"}, User |-> {"name", "age", "tags"}, Role |-> {"Role"}, UserAlias |-> {"UserAlias"},
     M |-> {"m", "x", "y"}, Fam |-> {"kids", "pet", "own", "x"},
     Cfg |-> {"age", "user", "name"}, Defaults |-> {"v", "g", "l", "o", "al"}]

---------------------------------------------------------------------------
(* The declaration parser, InterfaceSchemaParser.ts.  Its input is the     *)
(* syntax tree ts.createSourceFile yields: a node is a record with the     *)
(* SyntaxKind as kind.                                                     *)

TsBaseKeyword ==
    [StringKeyword |-> StringKeyword, NumberKeyword |-> NumberKeyword,
     BooleanKeyword |-> BooleanKeyword, UndefinedKeyword |-> UndefinedKeyword,
     NullKeyword |-> NullKeyword, AnyKeyword |-> AnyKeyword,
     UnknownKeyword |-> UnknownKeyword, NeverKeyword |-> NeverKeyword,
     BigIntKeyword |-> BigKeyword, SymbolKeyword |-> SymbolKeyword]

KeywordTypeNode(kind) == [kind |-> kind]
ArrayTypeNode(elementType) == [kind |-> "ArrayType", elementType |-> elementType]
\* literal is what the literal's text evaluates to
LiteralTypeNode(literal) == [kind |-> "LiteralType", literal |-> literal]
UnionTypeNode(types) == [kind |-> "UnionType", types |-> types]
IntersectionTypeNode(types) == [kind |-> "IntersectionType", types |-> types]
\* typeArguments: whether the reference is written with <...>
TypeReferenceNode(typeName, typeArguments) ==
    [kind |-> "TypeReference", typeName |-> typeName, typeArguments |-> typeArguments]
TypeLiteralNode(members) == [kind |-> "TypeLiteral", members |-> members]
\* a union written inside another type expression is in parentheses
ParenthesizedTypeNode(type) == [kind |-> "ParenthesizedType", type |-> type]
FunctionTypeNode == [kind |-> "FunctionType"]
\* member.type of a property written without a type annotation
NoTypeNode == [kind |-> "undefined"]

PropertySignature(name, questionToken, type) ==
    [kind |-> "PropertySignature", name |-> name,
     questionToken |-> questionToken, type |-> type]
IndexSignature == [kind |-> "IndexSignature"]

InterfaceDeclarationNode(name, members) ==
    [kind |-> "InterfaceDeclaration", name |-> name, members |-> members]
TypeAliasDeclarationNode(name, type) ==
    [kind |-> "TypeAliasDeclaration", name |-> name, type |-> type]

\* the names the declarations of a source file carry, each with its
\* characters in reverse order
Reversed == [T |-> "T", Ab |-> "bA"]
TypeNames == DOMAIN Reversed

formatObjectName(objectName) == "_" \o objectName \o "__" \o Reversed[objectName]

\* the Symbol that marks an alternative the parser cannot represent
ParseError == "Symbol(ParseError)"

createErrorAttr == [value |-> ParseError, isArray |-> FALSE, valueType |-> BaseType]

\* a.value !== ParseError; only a baseType alternative can hold the symbol
validAttribute(a) == ~(a.valueType = BaseType /\ a.value = ParseError)

RECURSIVE parseTypeNode(_)
RECURSIVE createUnionAttr(_)
RECURSIVE parsePropertyNode(_)

parseTypeNode(typeNode) ==
    CASE typeNode.kind \in DOMAIN TsBaseKeyword ->
             <<createBaseAttr(TsBaseKeyword[typeNode.kind])>>
      [] typeNode.kind = "ArrayType" ->
             createArrayAttr(parseTypeNode(typeNode.elementType))
      [] typeNode.kind = "LiteralType" ->
             <<createLiteralAttr(typeNode.literal)>>
      [] typeNode.kind = "UnionType" ->
             createUnionAttr(typeNode.types)
      [] typeNode.kind = "TypeReference" ->
             IF typeNode.typeArguments THEN <<createErrorAttr>>
             ELSE <<createTypeRefAttr(formatObjectName(typeNode.typeName))>>
      [] typeNode.kind = "TypeLiteral" ->
             <<createTypeLiteralAttr(
                 [i \in DOMAIN typeNode.members |->
                     parsePropertyNode(typeNode.members[i])])>>
      [] OTHER -> <<createErrorAttr>>

\* variant: the branches taken from the right
createUnionAttrReversed(types) ==
    IF Len(types) = 0 THEN <<>>
    ELSE createUnionAttr(Tail(types)) \o parseTypeNode(Head(types))

\* typeNode.types.flatMap(t => this.parseTypeNode(t))
createUnionAttr(types) ==
    IF Len(types) = 0 THEN <<>>
    ELSE parseTypeNode(Head(types)) \o createUnionAttr(Tail(types))

parsePropertyNode(member) ==
    IF member.kind # "PropertySignature" THEN Null
    ELSE LET attributes == parseTypeNode(member.type)
             validAttributes == SelectSeq(attributes, validAttribute)
         IN  IF Len(validAttributes) = 0 THEN Null
             ELSE SchemaProperty(member.name, member.questionToken, validAttributes)

parseTypeAliasNode(member, key) ==
    LET attributes == parseTypeNode(member.type)
        validAttributes == SelectSeq(attributes, validAttribute)
    IN  IF Len(validAttributes) = 0 THEN Null
        ELSE SchemaProperty(key, FALSE, validAttributes)

\* members.forEach(member => { const property = parsePropertyNode(member);
\*                             if (property) properties.push(property) })
memberProperties(members) ==
    SelectSeq([i \in DOMAIN members |-> parsePropertyNode(members[i])],
              LAMBDA property : property # Null)

RECURSIVE intersectionProperties(_)
intersectionProperties(types) ==
    IF Len(types) = 0 THEN <<>>
    ELSE (IF Head(types).kind = "TypeLiteral"
          THEN memberProperties(Head(types).members) ELSE <<>>)
         \o intersectionProperties(Tail(types))

\* variant: a later statement of the same name replaces the declaration
pushDeclarationReplaces(parsed, objectName, properties, declarationType) ==
    IF \E i \in DOMAIN parsed : parsed[i].objectName = objectName
    THEN LET i == CHOOSE j \in DOMAIN parsed : parsed[j].objectName = objectName
         IN  [parsed EXCEPT ![i].props = properties]
    ELSE Append(parsed, [objectName |-> objectName, props |-> properties,
                         declarationType |-> declarationType])

\* existing ? existing.props.push(...properties) : parsedInterfaces.push({...})
pushDeclaration(parsed, objectName, properties, declarationType) ==
    IF \E i \in DOMAIN parsed : parsed[i].objectName = objectName
    THEN LET i == CHOOSE j \in DOMAIN parsed : parsed[j].objectName = objectName
         IN  [parsed EXCEPT ![i].props = @ \o properties]
    ELSE Append(parsed, [objectName |-> objectName, props |-> properties,
                         declarationType |-> declarationType])

parsedTypeLiteralNode(parsed, node) ==
    LET typeAliasName == node.name
        isUnionOrLiteral == node.type.kind \in {"UnionType", "LiteralType"}
        property == parseTypeAliasNode(node, typeAliasName)
        properties ==
            CASE node.type.kind = "TypeLiteral" -> memberProperties(node.type.members)
              [] node.type.kind = "IntersectionType" ->
                     intersectionProperties(node.type.types)
              [] isUnionOrLiteral -> IF property # Null THEN <<property>> ELSE <<>>
              [] OTHER -> <<>>
        declarationType ==
            IF isUnionOrLiteral THEN TypeAliasDeclaration ELSE TypeLiteralDeclaration
    IN  pushDeclaration(parsed, formatObjectName(typeAliasName), properties,
                        declarationType)

parseInterfaceNode(parsed, node) ==
    pushDeclaration(parsed, formatObjectName(node.name),
                    memberProperties(node.members), InterfaceDeclaration)

\* the callback of sourceFileAst.forEachChild
parseNode(parsed, node) ==
    IF node.kind = "InterfaceDeclaration" THEN parseInterfaceNode(parsed, node)
    ELSE IF node.kind = "TypeAliasDeclaration" THEN parsedTypeLiteralNode(parsed, node)
    ELSE parsed

\* whether propsToString meets a member that is null, here or in a nested
\* inline object: p.attribute of null is a TypeError
RECURSIVE propsToStringThrows(_)
propsToStringThrows(props) ==
    \E i \in DOMAIN props :
        \/ props[i] = Null
        \/ \E j \in DOMAIN props[i].attribute :
              /\ props[i].attribute[j].valueType = TypeLiteral
              /\ propsToStringThrows(props[i].attribute[j].value)

\* the text of the artifact, one var statement and one defineProperty call
\* per declaration, or the error the serializer ends with
generateExportCode(parsed, isExport) ==
    IF \E i \in DOMAIN parsed : propsToStringThrows(parsed[i].props)
    THEN [status |-> "TypeError"]
    ELSE [status |-> "ok",
          text |-> [i \in DOMAIN parsed |->
                       [export |-> isExport,
                        objectName |-> parsed[i].objectName,
                        body |-> parsed[i].props,
                        declarationType |-> parsed[i].declarationType]]]

RECURSIVE parseNodes(_, _)
parseNodes(parsed, nodes) ==
    IF Len(nodes) = 0 THEN parsed
    ELSE parseNodes(parseNode(parsed, Head(nodes)), Tail(nodes))

\* new InterfaceSchemaParser(fileContent, filePath, isExport).build()
build(nodes, isExport) == generateExportCode(parseNodes(<<>>, nodes), isExport)

\* the bindings a module with this text has once it is loaded
Evaluate(text) ==
    [name \in {text[i].objectName : i \in DOMAIN text} |->
        LET i == CHOOSE j \in DOMAIN text : text[j].objectName = name
        IN  [declarationType |-> text[i].declarationType, props |-> text[i].body]]

---------------------------------------------------------------------------
(* The guard engine, SchemeGuard.ts.  A context c carries what a call can  *)
(* change: the heap, the visited WeakSet of the running call chain, the    *)
(* completion status, val, the value the call returns, and decls, the      *)
(* declaration objects of the loaded schema module.                        *)

\* visited holds declaration objects (by name) and inline schema objects;
\* the attribute getter builds a new inline object on every read, so an
\* inline identity is only counted: no later lookup can find it again
NewVisited == [refs |-> {}, lits |-> 0]

Context(ds, h) ==
    [heap |-> h, visited |-> NewVisited, status |-> "ok", val |-> Undefined,
     decls |-> ds]

Return(c, v) == [c EXCEPT !.val = v]
Throw(c, error) == [c EXCEPT !.status = error]

\* a new object or array literal; val is its reference
Alloc(c, obj) ==
    [c EXCEPT !.heap = Append(@, obj), !.val = Ref(Len(c.heap) + 1)]

\* target[key] = v
Assign(c, a, key, v) == [c EXCEPT !.heap[a].props = Put(@, key, v)]

\* visited.has(attribute.value)
visitedHas(visited, attribute) ==
    attribute.valueType = TypeReference /\ attribute.value \in visited.refs

\* variant: the add before an autofill left out
visitedAddNothing(visited, attribute) == visited

\* visited.add(attribute.value)
visitedAdd(visited, attribute) ==
    IF attribute.valueType = TypeReference
    THEN [visited EXCEPT !.refs = @ \cup {attribute.value}]
    ELSE [visited EXCEPT !.lits = @ + 1]

\* variant: the visit is a mark written on the declaration object itself
recordVisitedOnSchema(c, attribute) ==
    IF attribute.valueType = TypeReference
    THEN [c EXCEPT !.visited = visitedAdd(@, attribute),
                   !.decls[attribute.value].props =
                       Append(@, SchemaProperty("visited", TRUE,
                                                <<createLiteralAttr(Bool(TRUE))>>))]
    ELSE [c EXCEPT !.visited = visitedAdd(@, attribute)]

\* the statement visited.add(attribute.value) of applySchemaGuard
recordVisited(c, attribute) == [c EXCEPT !.visited = visitedAdd(@, attribute)]

\* variant: every keyword defaults to null
fillBaseTypeNull(baseValue) == Null

fillBaseType(baseValue) ==
    CASE baseValue = StringKeyword -> Str("")
      [] baseValue = NumberKeyword -> Num(0)
      [] baseValue = BooleanKeyword -> Bool(FALSE)
      [] baseValue = UndefinedKeyword -> Undefined
      [] baseValue = NullKeyword -> Null
      [] OTHER -> Null

fillAliasType(baseValue) == baseValue

\* variant: any and unknown accept every present value
checkBaseTypeAnyAccepts(h, paramValue, isArray, value) ==
    LET paramValueType == TypeOf(paramValue)
        accept == [isVerify |-> TRUE, value |-> paramValue]
        reject == [isVerify |-> FALSE, value |-> paramValue]
    IN  IF isArray /\ IsArrayValue(h, paramValue) THEN accept
        ELSE CASE value = StringKeyword ->
                    IF paramValueType = "string" THEN accept ELSE reject
               [] value = NumberKeyword ->
                    IF paramValueType = "number" THEN accept ELSE reject
               [] value = BooleanKeyword ->
                    IF paramValueType = "boolean" THEN accept ELSE reject
               [] value = UndefinedKeyword ->
                    IF paramValueType = "undefined" THEN accept ELSE reject
               [] value = NullKeyword ->
                    IF paramValue = Null THEN accept ELSE reject
               [] value \in {AnyKeyword, UnknownKeyword} -> accept
               [] OTHER -> reject

checkBaseType(h, paramValue, isArray, value) ==
    LET paramValueType == TypeOf(paramValue)
        accept == [isVerify |-> TRUE, value |-> paramValue]
        reject == [isVerify |-> FALSE, value |-> paramValue]
    IN  IF isArray /\ IsArrayValue(h, paramValue) THEN accept
        ELSE CASE value = StringKeyword ->
                    IF paramValueType = "string" THEN accept ELSE reject
               [] value = NumberKeyword ->
                    IF paramValueType = "number" THEN accept ELSE reject
               [] value = BooleanKeyword ->
                    IF paramValueType = "boolean" THEN accept ELSE reject
               [] value = UndefinedKeyword ->
                    IF paramValueType = "undefined" THEN accept ELSE reject
               [] value = NullKeyword ->
                    IF paramValue = Null THEN accept ELSE reject
               [] OTHER -> reject

checkAliasType(h, paramValue, isArray, value) ==
    IF isArray /\ IsArrayValue(h, paramValue)
    THEN [isVerify |-> TRUE, value |-> paramValue]
    ELSE IF paramValue = value
         THEN [isVerify |-> TRUE, value |-> paramValue]
         ELSE [isVerify |-> FALSE, value |-> value]

\* the attribute getter evaluates every alternative; the name of a
\* declaration the module does not have is a ReferenceError
resolves(ds, attribute) ==
    \A j \in DOMAIN attribute :
        attribute[j].valueType = TypeReference => attribute[j].value \in DOMAIN ds

\* the GuarderType object attribute.value evaluates to, in module ds
SchemaIn(ds, attribute) ==
    IF attribute.valueType = TypeReference
    THEN DeclSchemaIn(ds, attribute.value)
    ELSE InlineSchema(attribute.value)

\* the GuarderType object attribute.value evaluates to
SchemaOfAttr(attribute) == SchemaIn(Declarations, attribute)

RECURSIVE applySchemaGuard(_, _, _, _, _)
RECURSIVE guardEntries(_, _, _, _, _)
RECURSIVE autoFillValue(_, _, _)
RECURSIVE fillTypeLiteral(_, _, _)
RECURSIVE fillTypeReference(_, _, _)
RECURSIVE verifyAndFillField(_, _, _, _)
RECURSIVE verifyFields(_, _, _, _, _, _)
RECURSIVE checkTypeLiteral(_, _, _, _, _)
RECURSIVE checkTypeReference(_, _, _, _, _)
RECURSIVE guardItems(_, _, _, _, _)

\* variant: the array hint ignored, the target guarded as one object
applySchemaGuardHintIgnored(c, tgt, targetSchema, isArray, d) ==
    IF c.status # "ok" THEN c
    ELSE IF d = 0 THEN Throw(c, "RangeError")
    ELSE IF targetSchema.declarationType = TypeAliasDeclaration
    THEN IF Len(targetSchema.entries) = 0
         THEN Throw(c, "TypeError")
         ELSE autoFillValue(c, targetSchema.entries[1], d)
    ELSE guardEntries(c, tgt, targetSchema.entries, 1, d)

\* d is the stack left for this frame and the frames below it
applySchemaGuard(c, tgt, targetSchema, isArray, d) ==
    IF c.status # "ok" THEN c
    ELSE IF d = 0 THEN Throw(c, "RangeError")
    ELSE IF isArray THEN Alloc(c, EmptyArray)
    ELSE IF targetSchema.declarationType = TypeAliasDeclaration
    THEN IF Len(targetSchema.entries) = 0
         THEN Throw(c, "TypeError")
         ELSE autoFillValue(c, targetSchema.entries[1], d)
    ELSE guardEntries(c, tgt, targetSchema.entries, 1, d)

\* variant: an absent field that is optional is left absent
guardEntriesSkipsOptional(c, tgt, entries, i, d) ==
    IF c.status # "ok" THEN c
    ELSE IF i > Len(entries) THEN Return(c, tgt)
    ELSE
      LET schemaProperty == entries[i]
          key == schemaProperty.key
      IN  IF tgt.t # "ref" THEN Throw(c, "TypeError")
          ELSE IF ~resolves(c.decls, schemaProperty.attribute)
          THEN Throw(c, "ReferenceError")
          ELSE IF key \in DOMAIN c.heap[tgt.a].props
          THEN LET r == verifyAndFillField(c, c.heap[tgt.a].props[key],
                                           schemaProperty, d)
               IN  IF r.status # "ok" THEN r
                   ELSE guardEntries(Assign(r, tgt.a, key, r.val),
                                     tgt, entries, i + 1, d)
          ELSE IF schemaProperty.isOptional
          THEN guardEntries(c, tgt, entries, i + 1, d)
          ELSE LET attribute == Last(schemaProperty.attribute)
               IN  IF visitedHas(c.visited, attribute)
                   THEN LET o == Alloc(c, EmptyObject)
                        IN  Return(Assign(o, tgt.a, key, o.val), tgt)
                   ELSE LET c1 == IF attribute.valueType \in {TypeLiteral, TypeReference}
                                  THEN recordVisited(c, attribute)
                                  ELSE c
                            r == autoFillValue(c1, schemaProperty, d)
                        IN  IF r.status # "ok" THEN r
                            ELSE guardEntries(Assign(r, tgt.a, key, r.val),
                                              tgt, entries, i + 1, d)

\* the for loop of applySchemaGuard, from entry i on
guardEntries(c, tgt, entries, i, d) ==
    IF c.status # "ok" THEN c
    ELSE IF i > Len(entries) THEN Return(c, tgt)
    ELSE
      LET schemaProperty == entries[i]
          key == schemaProperty.key
      IN  IF tgt.t # "ref" THEN Throw(c, "TypeError")
          ELSE IF ~resolves(c.decls, schemaProperty.attribute)
          THEN Throw(c, "ReferenceError")
          ELSE IF key \in DOMAIN c.heap[tgt.a].props
          THEN LET r == verifyAndFillField(c, c.heap[tgt.a].props[key],
                                           schemaProperty, d)
               IN  IF r.status # "ok" THEN r
                   ELSE guardEntries(Assign(r, tgt.a, key, r.val),
                                     tgt, entries, i + 1, d)
          ELSE LET attribute == Last(schemaProperty.attribute)
               IN  IF visitedHas(c.visited, attribute)
                   THEN LET o == Alloc(c, EmptyObject)
                        IN  Return(Assign(o, tgt.a, key, o.val), tgt)
                   ELSE LET c1 == IF attribute.valueType \in {TypeLiteral, TypeReference}
                                  THEN recordVisited(c, attribute)
                                  ELSE c
                            r == autoFillValue(c1, schemaProperty, d)
                        IN  IF r.status # "ok" THEN r
                            ELSE guardEntries(Assign(r, tgt.a, key, r.val),
                                              tgt, entries, i + 1, d)

autoFillValue(c, schemaProperty, d) ==
    LET attribute == Last(schemaProperty.attribute)
    IN  IF ~resolves(c.decls, schemaProperty.attribute)
        THEN Throw(c, "ReferenceError")
        ELSE IF attribute.isArray THEN Alloc(c, EmptyArray)
        ELSE CASE attribute.valueType = BaseType ->
                    Return(c, fillBaseType(attribute.value))
               [] attribute.valueType = Alias ->
                    Return(c, fillAliasType(attribute.value))
               [] attribute.valueType = TypeLiteral ->
                    fillTypeLiteral(c, attribute, d)
               [] attribute.valueType = TypeReference ->
                    fillTypeReference(c, attribute, d)
               [] OTHER -> Return(c, Null)

fillTypeLiteral(c, attribute, d) ==
    LET o == Alloc(c, EmptyObject)
        r == applySchemaGuard(o, o.val, SchemaIn(c.decls, attribute),
                              attribute.isArray, d - 1)
    IN  IF r.status # "ok" THEN r ELSE Return(r, o.val)

fillTypeReference(c, attribute, d) ==
    LET o == Alloc(c, EmptyObject)
    IN  applySchemaGuard(o, o.val, SchemaIn(c.decls, attribute),
                         attribute.isArray, d - 1)

verifyAndFillField(c, tgt, propertyScheme, d) ==
    verifyFields(c, tgt, propertyScheme, 1, FALSE, d)

\* variant: an object alternative that passes leaves the loop as well
verifyFieldsFirstWins(c, tgt, propertyScheme, i, verifyFlag, d) ==
    IF c.status # "ok" THEN c
    ELSE IF i > Len(propertyScheme.attribute)
    THEN IF verifyFlag THEN Return(c, tgt)
         ELSE autoFillValue(c, propertyScheme, d)
    ELSE
      LET item == propertyScheme.attribute[i]
      IN  CASE item.valueType = BaseType ->
                 LET chk == checkBaseType(c.heap, tgt, item.isArray, item.value)
                 IN  IF chk.isVerify THEN Return(c, chk.value)
                     ELSE verifyFields(c, tgt, propertyScheme, i + 1, verifyFlag, d)
            [] item.valueType = Alias ->
                 LET chk == checkAliasType(c.heap, tgt, item.isArray, item.value)
                 IN  IF chk.isVerify THEN Return(c, chk.value)
                     ELSE verifyFields(c, tgt, propertyScheme, i + 1, verifyFlag, d)
            [] item.valueType = TypeLiteral ->
                 checkTypeLiteral(c, tgt, item.isArray, item, d)
            [] item.valueType = TypeReference ->
                 checkTypeReference(c, tgt, item.isArray, item, d)
            [] OTHER -> verifyFields(c, tgt, propertyScheme, i + 1, verifyFlag, d)

\* the labelled loop of verifyAndFillField, from alternative i on
verifyFields(c, tgt, propertyScheme, i, verifyFlag, d) ==
    IF c.status # "ok" THEN c
    ELSE IF i > Len(propertyScheme.attribute)
    THEN IF verifyFlag THEN Return(c, tgt)
         ELSE autoFillValue(c, propertyScheme, d)
    ELSE
      LET item == propertyScheme.attribute[i]
      IN  CASE item.valueType = BaseType ->
                 LET chk == checkBaseType(c.heap, tgt, item.isArray, item.value)
                 IN  IF chk.isVerify THEN Return(c, chk.value)
                     ELSE verifyFields(c, tgt, propertyScheme, i + 1, verifyFlag, d)
            [] item.valueType = Alias ->
                 LET chk == checkAliasType(c.heap, tgt, item.isArray, item.value)
                 IN  IF chk.isVerify THEN Return(c, chk.value)
                     ELSE verifyFields(c, tgt, propertyScheme, i + 1, verifyFlag, d)
            [] item.valueType = TypeLiteral ->
                 verifyFields(checkTypeLiteral(c, tgt, item.isArray, item, d),
                              tgt, propertyScheme, i + 1, TRUE, d)
            [] item.valueType = TypeReference ->
                 verifyFields(checkTypeReference(c, tgt, item.isArray, item, d),
                              tgt, propertyScheme, i + 1, TRUE, d)
            [] OTHER -> verifyFields(c, tgt, propertyScheme, i + 1, verifyFlag, d)

\* paramValue.forEach(item => applySchemaGuard({target: item, targetSchema}))
guardItems(c, a, j, targetSchema, d) ==
    IF c.status # "ok" \/ j > Len(c.heap[a].elems) THEN c
    ELSE guardItems(
           applySchemaGuard([c EXCEPT !.visited = NewVisited],
                            c.heap[a].elems[j], targetSchema, FALSE, d - 1),
           a, j + 1, targetSchema, d)

\* both checks call applySchemaGuard without visited: the callee gets a
\* new WeakSet and the caller's one is untouched
checkTypeLiteral(c, paramValue, isArray, item, d) ==
    LET r == IF isArray /\ IsArrayValue(c.heap, paramValue)
             THEN guardItems(c, paramValue.a, 1, SchemaIn(c.decls, item), d)
             ELSE applySchemaGuard([c EXCEPT !.visited = NewVisited],
                                   paramValue, SchemaIn(c.decls, item), FALSE, d - 1)
    IN  [r EXCEPT !.visited = c.visited, !.val = paramValue]

checkTypeReference(c, paramValue, isArray, item, d) ==
    LET r == IF isArray /\ IsArrayValue(c.heap, paramValue)
             THEN guardItems(c, paramValue.a, 1, SchemaIn(c.decls, item), d)
             ELSE applySchemaGuard([c EXCEPT !.visited = NewVisited],
                                   paramValue, SchemaIn(c.decls, item), FALSE, d - 1)
    IN  [r EXCEPT !.visited = c.visited, !.val = paramValue]

\* a top-level call: applySchemaGuard({target, targetSchema, isArray})
Guard(ds, h, tgt, name, isArray) ==
    applySchemaGuard(Context(ds, h), tgt, DeclSchemaIn(ds, name), isArray, MaxDepth)

\* the acyclic value below v, unfolded to at most fuel levels
RECURSIVE Tree(_, _, _)
Tree(h, v, fuel) ==
    IF v.t # "ref" THEN v
    ELSE IF fuel = 0 THEN [t |-> "cut"]
    ELSE [isArray |-> h[v.a].isArray,
          elems |-> [i \in DOMAIN h[v.a].elems |-> Tree(h, h[v.a].elems[i], fuel - 1)],
          props |-> [k \in DOMAIN h[v.a].props |-> Tree(h, h[v.a].props[k], fuel - 1)]]

---------------------------------------------------------------------------
(* The system: the value-fetch host builds a target value graph, then the  *)
(* calling code guards it, and may guard the returned value once more.     *)

NoCall == [status |-> "none"]

\* no source file under parse, no member under parse, no module transformed
NoParser == sourceFileAst = <<>> /\ parsedInterfaces = <<>> /\ artifact = NoCall
NoMember == memberNode = NoTypeNode /\ rawAttributes = <<>> /\ parsedProperty = NoCall
NoPlugin == interfaceSourceCodeMap = <<>> /\ rewritten = <<>> /\ loaded = NoCall
NoBuild == NoParser /\ NoMember /\ NoPlugin

\* no schema module loaded yet, and an empty object to guard
NoGuard ==
    /\ heap = <<EmptyObject>> /\ target = Ref(1) /\ schema = "none"
    /\ hint = FALSE /\ sets = 0 /\ r1 = NoCall /\ r2 = NoCall
    /\ declarations = <<>>

HostScalars == {Undefined, Null, Str("zcy"), Str("admin"), Num(1), Big(1)}

\* what a top-level call may be handed as target
TopTargets == {Ref(1), Undefined, Null, Str("zcy"), Str("admin")}

HostValues(h) == HostScalars \cup {Ref(a) : a \in 1..Len(h)}

\* a call site written useInterfaceGuarder<T[]> is handed an array
Init ==
    /\ hint \in BOOLEAN
    /\ heap \in (IF hint THEN {<<EmptyObject>>, <<EmptyArray>>} ELSE {<<EmptyObject>>})
    /\ target \in TopTargets
    /\ schema \in DeclNames
    /\ sets = 0
    /\ phase = "host"
    /\ r1 = NoCall
    /\ r2 = NoCall
    /\ declarations = Declarations
    /\ NoBuild

\* the host creates another object or array
HostNew ==
    /\ phase = "host"
    /\ target = Ref(1)
    /\ Len(heap) < MaxObjs
    /\ \E obj \in {EmptyObject, EmptyArray} : heap' = Append(heap, obj)
    /\ UNCHANGED <<target, schema, hint, sets, phase, r1, r2, declarations>>
    /\ UNCHANGED buildVars

\* the host writes a property of one of its objects
HostSet ==
    /\ phase = "host"
    /\ target = Ref(1)
    /\ sets < MaxSets
    /\ \E a \in 1..Len(heap), key \in HostKeys[schema], v \in HostValues(heap) :
          /\ ~heap[a].isArray
          /\ heap' = [heap EXCEPT ![a].props = Put(@, key, v)]
    /\ sets' = sets + 1
    /\ UNCHANGED <<target, schema, hint, phase, r1, r2, declarations>>
    /\ UNCHANGED buildVars

\* the host appends an element to one of its arrays
HostPush ==
    /\ phase = "host"
    /\ target = Ref(1)
    /\ sets < MaxSets
    /\ \E a \in 1..Len(heap), v \in HostValues(heap) :
          /\ heap[a].isArray
          /\ heap' = [heap EXCEPT ![a].elems = Append(@, v)]
    /\ sets' = sets + 1
    /\ UNCHANGED <<target, schema, hint, phase, r1, r2, declarations>>
    /\ UNCHANGED buildVars

\* the first top-level call; heap stays the value graph as it was handed in
GuardOnce ==
    /\ phase = "host"
    /\ r1' = Guard(declarations, heap, target, schema, hint)
    /\ declarations' = r1'.decls
    /\ phase' = "once"
    /\ UNCHANGED <<heap, target, schema, hint, sets, r2>>
    /\ UNCHANGED buildVars

\* a second top-level call, on what the first one returned
GuardAgain ==
    /\ phase = "once"
    /\ r1.status = "ok"
    /\ r2' = Guard(declarations, r1.heap, r1.val, schema, hint)
    /\ declarations' = r2'.decls
    /\ phase' = "twice"
    /\ UNCHANGED <<heap, target, schema, hint, sets, r1>>
    /\ UNCHANGED buildVars

Next == HostNew \/ HostSet \/ HostPush \/ GuardOnce \/ GuardAgain

Spec == Init /\ [][Next]_vars

---------------------------------------------------------------------------
(* Two builds of one call site: the declaration text as written, and the   *)
(* same text with the question tokens of some declarations flipped; both   *)
(* are handed the target the host built.  r1 is the call of the first      *)
(* build, r2 the call of the second.                                       *)

\* the declarations whose members change their question tokens
OptionalChoices(name) == {DeclNames, {name}, DeclNames \ {name}}

GuardOptional ==
    /\ phase = "host"
    /\ r1' = Guard(declarations, heap, target, schema, hint)
    /\ \E names \in OptionalChoices(schema) :
          r2' = Guard(OptionalDeclarations(declarations, names),
                      heap, target, schema, hint)
    /\ declarations' = r1'.decls
    /\ phase' = "optional"
    /\ UNCHANGED <<heap, target, schema, hint, sets>>
    /\ UNCHANGED buildVars

OptionalNext == HostNew \/ HostSet \/ HostPush \/ GuardOptional

OptionalSpec == Init /\ [][OptionalNext]_vars

---------------------------------------------------------------------------
(* The parser on one member of a declaration.                              *)

\* branches of the longest union written in a member's type
MaxBranches == 3

StringType == KeywordTypeNode("StringKeyword")
LiteralA == LiteralTypeNode(Str("a"))
GenericType == TypeReferenceNode("Promise", TRUE)
\* (number | 1)
NestedUnion ==
    ParenthesizedTypeNode(
        UnionTypeNode(<<KeywordTypeNode("NumberKeyword"), LiteralTypeNode(Num(1))>>))

LeafTypes ==
    {StringType, LiteralA, TypeReferenceNode("T", FALSE), GenericType, FunctionTypeNode}

InlineTypes ==
    {TypeLiteralNode(<<PropertySignature("x", FALSE, StringType)>>),
     TypeLiteralNode(<<PropertySignature("x", FALSE, GenericType)>>),
     TypeLiteralNode(<<IndexSignature>>),
     TypeLiteralNode(<<PropertySignature("x", FALSE, StringType), IndexSignature>>)}

BranchTypes == LeafTypes \cup {NestedUnion, ArrayTypeNode(StringType)}

ArrayTypes == {ArrayTypeNode(t) : t \in LeafTypes \cup InlineTypes \cup {NestedUnion}}

UnionTypes ==
    {UnionTypeNode(types) :
        types \in UNION {[1..n -> BranchTypes] : n \in 2..MaxBranches}}

TypeNodes == BranchTypes \cup InlineTypes \cup ArrayTypes \cup UnionTypes

MemberNodes ==
    {PropertySignature("a", questionToken, type) :
        questionToken \in BOOLEAN, type \in TypeNodes}
      \cup {PropertySignature("a", FALSE, NoTypeNode), IndexSignature}

MemberInit ==
    /\ memberNode \in MemberNodes
    /\ rawAttributes = <<>>
    /\ parsedProperty = NoCall
    /\ phase = "member"
    /\ NoGuard /\ NoParser /\ NoPlugin

\* parsePropertyNode(member), with what parseTypeNode returned before the
\* filter
ParseProperty ==
    /\ phase = "member"
    /\ rawAttributes' = IF memberNode.kind = "PropertySignature"
                        THEN parseTypeNode(memberNode.type) ELSE <<>>
    /\ parsedProperty' = parsePropertyNode(memberNode)
    /\ phase' = "parsed"
    /\ UNCHANGED <<memberNode, parserVars, pluginVars>>
    /\ UNCHANGED <<heap, target, schema, hint, sets, r1, r2, declarations>>

MemberNext == ParseProperty

MemberSpec == MemberInit /\ [][MemberNext]_vars

---------------------------------------------------------------------------
(* The parser on one source file: parseNode visits the top-level           *)
(* statements, generateExportCode writes the artifact, and the calling     *)
(* code guards an empty object against a declaration of the loaded module. *)

\* top-level statements of a source file
MaxStmts == 2

FieldNames == {"a", "b"}

FieldTypes ==
    {StringType, LiteralA, GenericType,
     TypeReferenceNode("T", FALSE), TypeReferenceNode("Ab", FALSE),
     UnionTypeNode(<<StringType, LiteralA>>),
     UnionTypeNode(<<GenericType, FunctionTypeNode>>),
     TypeLiteralNode(<<PropertySignature("x", FALSE, StringType)>>),
     TypeLiteralNode(<<PropertySignature("x", FALSE, GenericType)>>),
     TypeLiteralNode(<<IndexSignature>>)}

InterfaceStatements ==
    {InterfaceDeclarationNode(name, <<PropertySignature(key, FALSE, type)>>) :
        name \in TypeNames, key \in FieldNames, type \in FieldTypes}
      \cup {InterfaceDeclarationNode(name, members) :
               name \in TypeNames, members \in {<<>>, <<IndexSignature>>}}

AliasTypes ==
    {TypeLiteralNode(<<PropertySignature(key, FALSE, StringType)>>) : key \in FieldNames}
      \cup {TypeLiteralNode(<<PropertySignature("a", FALSE, GenericType)>>),
            UnionTypeNode(<<LiteralA, LiteralTypeNode(Str("b"))>>),
            UnionTypeNode(<<StringType, LiteralA>>),
            UnionTypeNode(<<GenericType, FunctionTypeNode>>),
            LiteralA, StringType,
            IntersectionTypeNode(
                <<TypeLiteralNode(<<PropertySignature("a", FALSE, StringType)>>),
                  TypeReferenceNode("T", FALSE),
                  TypeLiteralNode(<<PropertySignature("b", FALSE, LiteralA)>>)>>)}

AliasStatements ==
    {TypeAliasDeclarationNode(name, type) : name \in TypeNames, type \in AliasTypes}

Statements ==
    InterfaceStatements \cup AliasStatements \cup {[kind |-> "ImportDeclaration"]}

ParserInit ==
    /\ sourceFileAst = <<>>
    /\ parsedInterfaces = <<>>
    /\ artifact = NoCall
    /\ phase = "parse"
    /\ NoGuard /\ NoMember /\ NoPlugin

\* forEachChild reaches the next top-level statement of the file
VisitNode ==
    /\ phase = "parse"
    /\ Len(sourceFileAst) < MaxStmts
    /\ \E node \in Statements :
          /\ sourceFileAst' = Append(sourceFileAst, node)
          /\ parsedInterfaces' = parseNode(parsedInterfaces, node)
    /\ UNCHANGED <<artifact, guardVars, memberVars, pluginVars>>

\* the end of build(); the plugin has every declaration exported
GenerateExportCode ==
    /\ phase = "parse"
    /\ artifact' = generateExportCode(parsedInterfaces, TRUE)
    /\ phase' = "built"
    /\ UNCHANGED <<sourceFileAst, parsedInterfaces, memberVars, pluginVars>>
    /\ UNCHANGED <<heap, target, schema, hint, sets, r1, r2, declarations>>

\* the artifact is loaded and an empty object guarded against one of its
\* declarations
GuardParsed ==
    /\ phase = "built"
    /\ artifact.status = "ok"
    /\ \E name \in DOMAIN Evaluate(artifact.text) :
          /\ schema' = name
          /\ r1' = Guard(Evaluate(artifact.text), heap, target, name, FALSE)
    /\ declarations' = r1'.decls
    /\ phase' = "once"
    /\ UNCHANGED <<heap, target, hint, sets, r2, buildVars>>

ParserNext == VisitNode \/ GenerateExportCode \/ GuardParsed

ParserSpec == ParserInit /\ [][ParserNext]_vars

---------------------------------------------------------------------------
(* Properties                                                              *)

Called == phase # "host"
Returned == Called /\ r1.status = "ok"
\* the last alternative of a field, the one the claims call its fallback
Fallback(attribute) == attribute[Len(attribute)]

ObjectShaped(name) == Declarations[name].declarationType # TypeAliasDeclaration

\* a top-level call on an object-shaped declaration and an object target
ObjectCall == Called /\ ~hint /\ ObjectShaped(schema) /\ target = Ref(1)

Fields == Declarations[schema].props
FieldIndex == DOMAIN Fields

\* the target object as the host handed it in, and as the first call left it
Before == heap[1].props
After == r1.heap[1].props

EmptyTree == [isArray |-> FALSE, elems |-> <<>>, props |-> NoProps]
ObjTree(props) == [isArray |-> FALSE, elems |-> <<>>, props |-> props]

\* C1: guarding the result of a guard once more, each call with its own
\* visited set, yields a value structurally identical to the first result.
C1_Idempotent ==
    (ObjectCall /\ phase = "twice" /\ r2.status = "ok")
        => Tree(r2.heap, r2.val, MaxTree) = Tree(r1.heap, r1.val, MaxTree)

\* C2: after a top-level guard on an object-shaped declaration returns,
\* every key of the declaration is present on the returned object.
C2_Complete ==
    (ObjectCall /\ Returned)
        => \A i \in FieldIndex : Fields[i].key \in DOMAIN r1.heap[r1.val.a].props

\* C3: the engine never raises an error on a shape mismatch, whatever the
\* target or a present field value is.
C3_NeverThrows == Called => r1.status # "TypeError"

\* C4: every top-level guard call terminates: its recursion never runs out
\* of stack, for every declaration set and every target value graph.
C4_Terminates == Called => r1.status # "RangeError"

\* the addresses an object refers to, and whether the target graph has an
\* object that reaches itself
Succ(h, a) ==
    {h[a].props[k].a : k \in {kk \in DOMAIN h[a].props : h[a].props[kk].t = "ref"}}
        \cup {h[a].elems[j].a : j \in {jj \in DOMAIN h[a].elems : h[a].elems[jj].t = "ref"}}

RECURSIVE ReachFrom(_, _, _)
ReachFrom(h, frontier, n) ==
    IF n = 0 THEN frontier
    ELSE ReachFrom(h, frontier \cup UNION {Succ(h, a) : a \in frontier}, n - 1)

Reaches(h, a, b) == b \in ReachFrom(h, Succ(h, a), Len(h))
Cyclic(h) == \E a \in 1..Len(h) : Reaches(h, a, a)

EmptyTarget == target = Ref(1) /\ DOMAIN Before = {}

\* the stack runs out only on a target graph with a cycle
RangeErrorOnlyIfCyclic == (Called /\ r1.status = "RangeError") => Cyclic(heap)

\* C5 as first stated: guard({}, A) with A{b: B}, B{a: A} returns an object
\* whose b.a slot is an empty object.
C5_NestedSlotEmpty ==
    (ObjectCall /\ Returned /\ EmptyTarget /\ schema = "A")
        => Tree(r1.heap, r1.val, MaxTree).props["b"].props["a"] = EmptyTree

\* C5, amended: the top-level declaration is not in visited, so it is
\* expanded once more when a reference reaches it: guard({}, A) returns
\* {b: {a: {b: {}}}}, guard({}, B) returns {a: {b: {a: {}}}}, and the slot
\* set to an empty object is the first absent reference field whose target
\* declaration an earlier autofill of the same call recorded in visited, as
\* in guard({}, App) = {first: {b: {a: {}}}}.
C5_CycleCut ==
    (ObjectCall /\ EmptyTarget /\ schema \in {"A", "B", "App"})
        => /\ r1.status = "ok"
           /\ Tree(r1.heap, r1.val, MaxTree) =
                CASE schema = "A" ->
                       ObjTree([b |-> ObjTree([a |-> ObjTree([b |-> EmptyTree])])])
                  [] schema = "B" ->
                       ObjTree([a |-> ObjTree([b |-> ObjTree([a |-> EmptyTree])])])
                  [] schema = "App" ->
                       ObjTree([first |-> ObjTree([b |-> ObjTree([a |-> EmptyTree])])])

C5_Witness ==
    ObjectCall /\ Returned /\ EmptyTarget /\ schema = "A"
        /\ "b" \in DOMAIN After

\* the default the table of section 4.3 gives for a non-array primitive or
\* literal alternative
TableDefault(attribute) ==
    IF attribute.valueType = Alias THEN attribute.value
    ELSE CASE attribute.value = StringKeyword -> Str("")
           [] attribute.value = NumberKeyword -> Num(0)
           [] attribute.value = BooleanKeyword -> Bool(FALSE)
           [] attribute.value = UndefinedKeyword -> Undefined
           [] OTHER -> Null

ScalarFallback(i) ==
    /\ Fallback(Fields[i].attribute).valueType \in {BaseType, Alias}
    /\ ~Fallback(Fields[i].attribute).isArray

\* C6: a field whose last alternative is a literal or a primitive and that
\* the target lacks holds exactly that alternative's default after guard,
\* whatever the other fields are and wherever it stands in the field order.
C6_DefaultFidelity ==
    (ObjectCall /\ Returned)
        => \A i \in FieldIndex :
              (ScalarFallback(i) /\ Fields[i].key \notin DOMAIN Before)
                  => /\ Fields[i].key \in DOMAIN After
                     /\ After[Fields[i].key] = TableDefault(Fallback(Fields[i].attribute))

\* a present value satisfies an alternative, in the words of the claim
Satisfies(h, v, attribute) ==
    CASE attribute.valueType \in {TypeLiteral, TypeReference} -> v.t = "ref"
      [] attribute.isArray -> IsArrayValue(h, v)
      [] attribute.valueType = Alias -> v = attribute.value
      [] attribute.value = StringKeyword -> v.t = "string"
      [] attribute.value = NumberKeyword -> v.t = "number"
      [] attribute.value = BooleanKeyword -> v.t = "boolean"
      [] attribute.value = UndefinedKeyword -> v.t = "undefined"
      [] attribute.value = NullKeyword -> v.t = "null"
      [] OTHER -> FALSE

Conforms(i) ==
    /\ Fields[i].key \in DOMAIN Before
    /\ \E j \in DOMAIN Fields[i].attribute :
          Satisfies(heap, Before[Fields[i].key], Fields[i].attribute[j])

\* C7: a present value that satisfies some alternative of its field is
\* still at that key after guard, the same scalar or the same object.
C7_NonCoercion ==
    ObjectCall
        => \A i \in FieldIndex :
              Conforms(i) => /\ Fields[i].key \in DOMAIN After
                             /\ After[Fields[i].key] = Before[Fields[i].key]

\* a present conforming value is replaced only in a target that reaches itself
NonCoercionUnlessSelfReaching == ~Reaches(heap, 1, 1) => C7_NonCoercion

\* C8 as first stated: the walk stops at the first alternative that passes,
\* so with alternatives [InlineObject {x}, InlineObject {y}] only the first
\* one's field x is repaired onto the present object.
C8_OnlyFirstObject ==
    (ObjectCall /\ Returned /\ schema = "M" /\ "m" \in DOMAIN Before
        /\ Before["m"].t = "ref" /\ "y" \notin DOMAIN heap[Before["m"].a].props)
        => "y" \notin DOMAIN r1.heap[Before["m"].a].props

\* C8, amended: the walk stops at the first primitive or literal alternative
\* that passes, and no later alternative is checked or applied (pet: string
\* | P keeps a string and never guards it against P); an object alternative
\* always passes but does not stop the walk, so every object alternative the
\* walk reaches is applied in declared order: {x} | {y} repairs both x and y
\* onto the present object, and own: P | string repairs P's field onto it.
C8_WalkOrder ==
    /\ (ObjectCall /\ schema = "M" /\ "m" \in DOMAIN Before /\ Before["m"].t = "ref")
          => /\ Returned
             /\ After["m"] = Before["m"]
             /\ {"x", "y"} \subseteq DOMAIN r1.heap[Before["m"].a].props
    /\ (ObjectCall /\ schema = "Fam" /\ DOMAIN Before = {"pet"}
            /\ Before["pet"].t = "string")
          => /\ Returned
             /\ After["pet"] = Before["pet"]
    /\ (ObjectCall /\ schema = "Fam" /\ "own" \in DOMAIN Before
            /\ Before["own"].t = "ref")
          => /\ After["own"] = Before["own"]
             /\ "x" \in DOMAIN r1.heap[Before["own"].a].props

C8_Witness ==
    /\ ObjectCall /\ Returned /\ schema = "M" /\ "m" \in DOMAIN Before
    /\ Before["m"].t = "ref" /\ DOMAIN heap[Before["m"].a].props = {}
    /\ DOMAIN r1.heap[Before["m"].a].props = {"x", "y"}

AliasCall == Called /\ ~hint /\ ~ObjectShaped(schema)

\* C9: guarding a literal-union alias declaration returns the default of its
\* last branch for every target, and leaves the target as it was.
C9_AliasScalar ==
    AliasCall
        => /\ r1.status = "ok"
           /\ r1.val = TableDefault(Fallback(Fields[1].attribute))
           /\ r1.heap = heap

C9_Witness ==
    /\ AliasCall /\ schema = "Role" /\ r1.val = Str("user")
    /\ target = Ref(1) /\ "Role" \in DOMAIN Before

\* the value the first call stored is a new object, or a new empty array
FreshObject(v) == v.t = "ref" /\ v.a > Len(heap) /\ ~r1.heap[v.a].isArray
FreshEmptyArray(v) == v.t = "ref" /\ v.a > Len(heap) /\ r1.heap[v.a] = EmptyArray

\* the declarations in which no absent top-level field meets a visited
\* entry, so that every absent field gets what autoFillValue returns
TableDecls == DeclNames \ {"S", "Fam"}

\* a call whose absent fields hold, when it returns, what autoFillValue
\* returned for them: the target does not reach itself, so no nested call
\* writes to it after the slot was filled
TableCall ==
    ObjectCall /\ Returned /\ schema \in TableDecls /\ ~Reaches(heap, 1, 1)

NestedEntries(attribute) == SchemaOfAttr(attribute).entries

\* a new object that has every key of the nested schema
GuardedObject(v, attribute) ==
    /\ FreshObject(v)
    /\ \A n \in DOMAIN NestedEntries(attribute) :
          NestedEntries(attribute)[n].key \in DOMAIN r1.heap[v.a].props

\* one row of the default table as first stated
TableRow(attribute, v) ==
    IF attribute.isArray THEN FreshEmptyArray(v)
    ELSE IF attribute.valueType \in {BaseType, Alias}
         THEN v = TableDefault(attribute)
         ELSE GuardedObject(v, attribute)

\* the row for a reference to a literal-union alias declaration: the scalar
\* that guarding that declaration returns
RefersToAlias(attribute) ==
    /\ attribute.valueType = TypeReference
    /\ ~attribute.isArray
    /\ ~ObjectShaped(attribute.value)

AmendedRow(attribute, v) ==
    IF RefersToAlias(attribute)
    THEN v = TableDefault(Fallback(Declarations[attribute.value].props[1].attribute))
    ELSE TableRow(attribute, v)

Scenario1 ==
    (ObjectCall /\ schema = "User" /\ Tree(heap, target, MaxTree)
            = ObjTree([name |-> Str("zcy")]))
        => /\ Returned
           /\ Tree(r1.heap, r1.val, MaxTree) =
                ObjTree([name |-> Str("zcy"), age |-> Num(1),
                         tags |-> [isArray |-> TRUE, elems |-> <<>>, props |-> NoProps]])

\* C10 as first stated: every absent field gets the table's default for its
\* last alternative, a new object for every InlineObject or ObjectReference.
C10_Table ==
    /\ TableCall
          => \A i \in FieldIndex :
                Fields[i].key \notin DOMAIN Before
                    => /\ Fields[i].key \in DOMAIN After
                       /\ TableRow(Fallback(Fields[i].attribute), After[Fields[i].key])
    /\ Scenario1

\* C10, amended: as the table says, except that an ObjectReference to a
\* literal-union alias declaration yields that declaration's scalar default
\* (the default of the alias's last branch) and not an object.
C10_AmendedTable ==
    /\ TableCall
          => \A i \in FieldIndex :
                Fields[i].key \notin DOMAIN Before
                    => /\ Fields[i].key \in DOMAIN After
                       /\ AmendedRow(Fallback(Fields[i].attribute), After[Fields[i].key])
    /\ Scenario1

C10_Witness ==
    /\ ObjectCall /\ Returned /\ schema = "Defaults" /\ EmptyTarget
    /\ After["al"] = Str("user")
    /\ After["g"] = Null
    /\ FreshEmptyArray(After["oa"])

\* C16: visited holds only the identities on the active recursion path, so
\* two absent sibling fields that reference the same declaration P are each
\* filled with the fully generated default of P: guard({}, S) has
\* p = {x: 1} and q = {x: 1}.
C16_SiblingsFilled ==
    (ObjectCall /\ Returned /\ schema = "S"
        /\ "p" \notin DOMAIN Before /\ "q" \notin DOMAIN Before)
        => /\ {"p", "q"} \subseteq DOMAIN After
           /\ Tree(r1.heap, After["p"], MaxTree) = ObjTree([x |-> Num(1)])
           /\ Tree(r1.heap, After["q"], MaxTree) = ObjTree([x |-> Num(1)])

\* a top-level call with the array hint useInterfaceGuarder<T[]> appends
HintCall == Called /\ hint

\* C19: with isArray = true the call returns a new empty array for every
\* target and every declaration, and the target graph is left as it was,
\* also when the target is an array of objects that conform.
C19_HintEmptyArray ==
    HintCall
        => /\ r1.status = "ok"
           /\ r1.val = Ref(Len(heap) + 1)
           /\ r1.heap[r1.val.a] = [isArray |-> TRUE, elems |-> <<>>, props |-> NoProps]
           /\ Len(r1.heap) = Len(heap) + 1
           /\ \A a \in 1..Len(heap) : r1.heap[a] = heap[a]

\* the target is an array holding one object that conforms to P
C19_Witness ==
    /\ HintCall /\ schema = "P" /\ target = Ref(1)
    /\ heap[1].isArray /\ heap[1].elems = <<Ref(2)>>
    /\ heap[2] = [isArray |-> FALSE, elems |-> <<>>, props |-> [x |-> Num(1)]]
    /\ r1.val = Ref(3)

\* the keywords checkBaseType has no case for
OpaqueKeywords ==
    {AnyKeyword, UnknownKeyword, NeverKeyword, BigKeyword, SymbolKeyword}

\* a field all of whose alternatives are non-array primitives among them
OpaqueField(i) ==
    \A j \in DOMAIN Fields[i].attribute :
        /\ Fields[i].attribute[j].valueType = BaseType
        /\ ~Fields[i].attribute[j].isArray
        /\ Fields[i].attribute[j].value \in OpaqueKeywords

TargetGraph ==
    IF target.t = "ref" THEN ReachFrom(heap, {target.a}, Len(heap)) ELSE {}

\* C17: no call adds, removes or changes a field, an alternative or the kind
\* tag of a declaration; the engine writes only to the objects of the target
\* graph it was handed and to the objects it creates.
C17_SchemaReadOnly ==
    /\ declarations = Declarations
    /\ Called => /\ r1.decls = Declarations
                 /\ \A a \in (1..Len(heap)) \ TargetGraph : r1.heap[a] = heap[a]
    /\ phase = "twice" => r2.decls = Declarations

\* a call that filled the target and created objects, next to a host object
\* that is not part of the target graph
C17_Witness ==
    /\ ObjectCall /\ Returned /\ schema = "Cfg"
    /\ Len(heap) = 2 /\ TargetGraph = {1} /\ "name" \in DOMAIN heap[2].props
    /\ DOMAIN After = {"age", "user"}
    /\ Len(r1.heap) > Len(heap)

---------------------------------------------------------------------------
(* The plugin, vite-plugin-interface-guarder.ts: transform rewrites the    *)
(* useInterfaceGuarder<T>() call of a module and records the artifact of   *)
(* the file that declares T in interfaceSourceCodeMap; load serves it.  A  *)
(* path is the sequence of its segments: /app/a/types.ts is                *)
(* <<"", "app", "a", "types.ts">> and ./types is <<".", "types">>.         *)

\* modules the bundler hands to transform
MaxTransforms == 3

VIRTUAL_PREFIX == <<"virtual:type", "object">>

root == <<"", "app">>

\* relPath.replace(/^(\.\/|\/)/, '')
cleanSource(relPath) ==
    IF Len(relPath) > 1 /\ Head(relPath) \in {".", ""} THEN Tail(relPath) ELSE relPath

virtualSource(relPath) == VIRTUAL_PREFIX \o cleanSource(relPath)

dirname(path) == SubSeq(path, 1, Len(path) - 1)

\* this.resolve(source, id): a relative specifier against the importer's
\* directory; the declaring file has the extension .ts
RECURSIVE join(_, _)
join(base, source) ==
    IF Len(source) = 0 THEN base
    ELSE IF Head(source) = "." THEN join(base, Tail(source))
    ELSE IF Head(source) = ".." THEN join(dirname(base), Tail(source))
    ELSE join(Append(base, Head(source)), Tail(source))

viteResolve(source, id) ==
    LET path == join(dirname(id), source)
    IN  [path EXCEPT ![Len(path)] = @ \o ".ts"]

\* pathTool.posix.relative(root, cleanId), for a module below root
relative(from, to) == SubSeq(to, Len(from) + 1, Len(to))

\* the declarations written in the files of the project
TypesOfA ==
    <<InterfaceDeclarationNode("T", <<PropertySignature("a", FALSE, StringType)>>)>>
TypesOfB ==
    <<InterfaceDeclarationNode("T", <<PropertySignature("b", FALSE, StringType)>>)>>
TypesOfRoot ==
    <<TypeAliasDeclarationNode("T", UnionTypeNode(<<StringType, LiteralA>>))>>
PageOfA ==
    <<[kind |-> "ImportDeclaration"],
      InterfaceDeclarationNode("T", <<PropertySignature("a", TRUE, LiteralA)>>)>>
PageOfB ==
    <<[kind |-> "ImportDeclaration"],
      TypeAliasDeclarationNode("T",
          TypeLiteralNode(<<PropertySignature("b", TRUE, LiteralA)>>))>>

PageA == <<"", "app", "a", "page.tsx">>
PageB == <<"", "app", "b", "page.tsx">>

\* fs.readFileSync(absPath), as the syntax tree of the text
loadTsFileAsString(absPath) ==
    CASE absPath = <<"", "app", "a", "types.ts">> -> TypesOfA
      [] absPath = <<"", "app", "b", "types.ts">> -> TypesOfB
      [] absPath = <<"", "app", "types.ts">> -> TypesOfRoot
      [] absPath = PageA -> PageOfA
      [] absPath = PageB -> PageOfB

BuildInterfaceGuarderCode(absPath, relPath) == build(loadTsFileAsString(absPath), TRUE)

\* the import a module has for the type of its call, none if the type is
\* declared in the module itself
NoImport == <<>>
ImportSources == {<<".", "types">>, <<"..", "types">>, NoImport}

\* a module: its id, whether it imports the hook, the type T of its call
\* useInterfaceGuarder<T>() or useInterfaceGuarder<T[]>(), and the specifier
\* T is imported from
Modules ==
    [id : {PageA, PageB}, hasTargetHookImport : BOOLEAN, typeName : {"T"},
     isArrayType : BOOLEAN, source : ImportSources]

\* the CallExpression visitor and the import insertion for one call: the map
\* after it, and the rewritten call with the virtual module it imports from.
\* interfaceSourceCodeMap.has(sourceId) tests a file path against keys
\* that all begin with VIRTUAL_PREFIX
transformCall(map, module) ==
    LET imported == module.source # NoImport
        sourceId == IF imported THEN viteResolve(module.source, module.id)
                    ELSE module.id
        relPath == IF imported THEN module.source ELSE relative(root, module.id)
        generate == sourceId \notin DOMAIN map
    IN  [map |-> IF generate
                 THEN [k \in DOMAIN map \cup {virtualSource(relPath)} |->
                          IF k = virtualSource(relPath)
                          THEN BuildInterfaceGuarderCode(sourceId, relPath)
                          ELSE map[k]]
                 ELSE map,
         call |-> [sourceId |-> sourceId,
                   virtualSource |-> virtualSource(relPath),
                   arguments |-> <<formatObjectName(module.typeName),
                                   module.isArrayType>>]]

resolveId(id) == IF SubSeq(id, 1, Len(VIRTUAL_PREFIX)) = VIRTUAL_PREFIX THEN id ELSE Null

\* interfaceSourceCodeMap.get(id) || null
load(map, id) == IF id \in DOMAIN map THEN map[id] ELSE Null

PluginInit ==
    /\ interfaceSourceCodeMap = <<>>
    /\ rewritten = <<>>
    /\ loaded = NoCall
    /\ sets = 0
    /\ phase = "plugin"
    /\ heap = <<EmptyObject>> /\ target = Ref(1) /\ schema = "none"
    /\ hint = FALSE /\ r1 = NoCall /\ r2 = NoCall /\ declarations = <<>>
    /\ NoParser /\ NoMember

\* transform(code, id) of a module the plugin has not seen; sets counts
\* the modules transformed
Transform ==
    /\ phase = "plugin"
    /\ sets < MaxTransforms
    /\ \E module \in Modules :
          /\ module.id \notin DOMAIN rewritten
          /\ IF module.hasTargetHookImport
             THEN /\ interfaceSourceCodeMap' =
                        transformCall(interfaceSourceCodeMap, module).map
                  /\ rewritten' =
                        [id \in DOMAIN rewritten \cup {module.id} |->
                            IF id = module.id
                            THEN transformCall(interfaceSourceCodeMap, module).call
                            ELSE rewritten[id]]
             ELSE UNCHANGED <<interfaceSourceCodeMap, rewritten>>
    /\ sets' = sets + 1
    /\ UNCHANGED <<loaded, parserVars, memberVars>>
    /\ UNCHANGED <<heap, target, schema, hint, phase, r1, r2, declarations>>

\* the bundler resolves and loads a module id
Load ==
    /\ phase = "plugin"
    /\ \E id \in {rewritten[m].virtualSource : m \in DOMAIN rewritten}
                    \cup {PageA, VIRTUAL_PREFIX \o <<"none">>} :
          loaded' = [id |-> id,
                     code |-> IF resolveId(id) = Null THEN Null
                              ELSE load(interfaceSourceCodeMap, id)]
    /\ UNCHANGED <<interfaceSourceCodeMap, rewritten, parserVars, memberVars, guardVars>>

PluginNext == Transform \/ Load

PluginSpec == PluginInit /\ [][PluginNext]_vars

---------------------------------------------------------------------------
(* Properties of the parser and the serializer                             *)

\* every entry of a field sequence is a field with at least one
\* alternative, in the sequence itself and in every inline object below it
RECURSIVE FieldsPresent(_)
FieldsPresent(props) ==
    \A i \in DOMAIN props :
        /\ props[i] # Null
        /\ Len(props[i].attribute) >= 1
        /\ \A j \in DOMAIN props[i].attribute :
              props[i].attribute[j].valueType = TypeLiteral
                  => FieldsPresent(props[i].attribute[j].value)

\* C11: no field is emitted with an empty alternative list: in every
\* declaration and every inline object the parser produces, a member whose
\* every candidate type is unsupported is absent from the field sequence,
\* and every entry of the sequence is a field with at least one alternative.
C11_NoEmptyField ==
    \A i \in DOMAIN parsedInterfaces : FieldsPresent(parsedInterfaces[i].props)

Built == phase \in {"built", "once"}

\* C12: an unsupported type expression never aborts the build: for every
\* source, generateExportCode returns the text of all declarations, also when
\* the unsupported form is a member of an inline object type.
C12_BuildNeverAborts == Built => artifact.status = "ok"

\* the fields one top-level statement contributes to its declaration
StatementFields(node) ==
    CASE node.kind = "InterfaceDeclaration" -> memberProperties(node.members)
      [] node.kind = "TypeAliasDeclaration" /\ node.type.kind = "TypeLiteral" ->
             memberProperties(node.type.members)
      [] node.kind = "TypeAliasDeclaration" /\ node.type.kind = "IntersectionType" ->
             intersectionProperties(node.type.types)
      [] node.kind = "TypeAliasDeclaration"
            /\ node.type.kind \in {"UnionType", "LiteralType"} ->
             SelectSeq(<<parseTypeAliasNode(node, node.name)>>,
                       LAMBDA property : property # Null)
      [] OTHER -> <<>>

Declares(node) == node.kind \in {"InterfaceDeclaration", "TypeAliasDeclaration"}

\* the fields of the statements named name, concatenated in source order
RECURSIVE FieldsInSourceOrder(_, _)
FieldsInSourceOrder(statements, name) ==
    IF Len(statements) = 0 THEN <<>>
    ELSE (IF Declares(Head(statements)) /\ Head(statements).name = name
          THEN StatementFields(Head(statements)) ELSE <<>>)
         \o FieldsInSourceOrder(Tail(statements), name)

DeclaredNames ==
    {sourceFileAst[i].name : i \in {j \in DOMAIN sourceFileAst : Declares(sourceFileAst[j])}}

\* C13: parsedInterfaces has at most one declaration per name, one for every
\* name the file declares, and the field sequence of a declaration is the
\* concatenation, in source order, of the fields of all statements with
\* that name.
C13_Merging ==
    /\ \A i, j \in DOMAIN parsedInterfaces :
          parsedInterfaces[i].objectName = parsedInterfaces[j].objectName => i = j
    /\ \A name \in DeclaredNames :
          \E i \in DOMAIN parsedInterfaces :
              /\ parsedInterfaces[i].objectName = formatObjectName(name)
              /\ parsedInterfaces[i].props = FieldsInSourceOrder(sourceFileAst, name)
    /\ Len(parsedInterfaces) = Cardinality(DeclaredNames)

\* two statements of one name, each with a field of its own
C13_Witness ==
    /\ Len(sourceFileAst) = 2
    /\ sourceFileAst[1].kind = "InterfaceDeclaration"
    /\ sourceFileAst[2].kind = "TypeAliasDeclaration"
    /\ sourceFileAst[1].name = sourceFileAst[2].name
    /\ Len(parsedInterfaces) = 1
    /\ Len(parsedInterfaces[1].props) = 2
    /\ parsedInterfaces[1].props[1].key = "b"
    /\ parsedInterfaces[1].props[2].key = "a"

\* C14: every typeAlias declaration the parser produces has exactly one
\* field, also for a union whose branches are all unsupported and for a type
\* alias that shares its name with an earlier declaration; a guard call
\* on a declaration of that kind takes the scalar branch and returns.
C14_AliasOneField ==
    /\ \A i \in DOMAIN parsedInterfaces :
          parsedInterfaces[i].declarationType = TypeAliasDeclaration
              => Len(parsedInterfaces[i].props) = 1
    /\ (phase = "once" /\ declarations[schema].declarationType = TypeAliasDeclaration)
          => /\ Len(declarations[schema].props) = 1
             /\ r1.status \in {"ok", "ReferenceError"}

\* one alternative as the classification table of section 4.1 names it; the
\* fields of an inline object are not part of the comparison
Alternative(valueType, value) ==
    [valueType |-> valueType, isArray |-> FALSE, value |-> value]

\* the alternatives the table gives a type expression, in declared order;
\* flatten tells whether a union nested in parentheses contributes its
\* branches or is an unclassified form
RECURSIVE Classified(_, _)
RECURSIVE ClassifiedBranches(_, _)
Classified(typeNode, flatten) ==
    CASE typeNode.kind \in DOMAIN TsBaseKeyword ->
             <<Alternative(BaseType, TsBaseKeyword[typeNode.kind])>>
      [] typeNode.kind = "LiteralType" -> <<Alternative(Alias, typeNode.literal)>>
      [] typeNode.kind = "TypeReference" ->
             IF typeNode.typeArguments THEN <<>>
             ELSE <<Alternative(TypeReference, formatObjectName(typeNode.typeName))>>
      [] typeNode.kind = "TypeLiteral" -> <<Alternative(TypeLiteral, "inline")>>
      [] typeNode.kind = "UnionType" -> ClassifiedBranches(typeNode.types, flatten)
      [] typeNode.kind = "ParenthesizedType" ->
             IF flatten THEN Classified(typeNode.type, flatten) ELSE <<>>
      [] typeNode.kind = "ArrayType" ->
             [i \in DOMAIN Classified(typeNode.elementType, flatten) |->
                 [Classified(typeNode.elementType, flatten)[i] EXCEPT !.isArray = TRUE]]
      [] OTHER -> <<>>

ClassifiedBranches(types, flatten) ==
    IF Len(types) = 0 THEN <<>>
    ELSE Classified(Head(types), flatten) \o ClassifiedBranches(Tail(types), flatten)

SameAlternative(a, b) ==
    /\ a.valueType = b.valueType
    /\ a.isArray = b.isArray
    /\ a.valueType = TypeLiteral \/ a.value = b.value

SameAlternatives(s, t) ==
    /\ Len(s) = Len(t)
    /\ \A i \in DOMAIN s : SameAlternative(s[i], t[i])

\* a property member has been parsed
PropertyParsed == phase = "parsed" /\ memberNode.kind = "PropertySignature"

\* the alternatives of the field parsePropertyNode returned, none if it
\* returned null
FieldAlternatives == IF parsedProperty = Null THEN <<>> ELSE parsedProperty.attribute

\* C15 as first stated: the alternatives of a union are the concatenation of
\* each branch's alternatives in branch order, a nested union flattened into
\* it, and T[] has the alternatives of T with isArray = true on every one.
C15_NestedFlattened ==
    PropertyParsed
        => SameAlternatives(FieldAlternatives, Classified(memberNode.type, TRUE))

\* C15, amended: as stated, except that a union nested in another type
\* expression is a ParenthesizedType node, which is not classified: the
\* branch (B | C) of A | (B | C) is dropped whole and (A | B)[] yields no
\* alternative.  parseTypeNode returns a dropped branch as a ParseError
\* marker in its place; the filter of parsePropertyNode removes the markers
\* without reordering the rest, and a field left with no alternative is null.
C15_DeclaredOrder ==
    PropertyParsed
        => /\ SameAlternatives(FieldAlternatives, Classified(memberNode.type, FALSE))
           /\ SameAlternatives(SelectSeq(rawAttributes, validAttribute),
                               FieldAlternatives)
           /\ parsedProperty = Null <=> Classified(memberNode.type, FALSE) = <<>>

C15_Witness ==
    /\ PropertyParsed
    /\ memberNode.type = UnionTypeNode(<<StringType, NestedUnion, LiteralA>>)
    /\ Len(rawAttributes) = 3
    /\ Len(parsedProperty.attribute) = 2
    /\ parsedProperty.attribute[2] = createLiteralAttr(Str("a"))

\* C18: for every call transform rewrote, load of the virtual id named in
\* the import it inserted returns the artifact generated from the file that
\* declares the type of the call, also for two modules in different
\* directories that import different files through the same specifier.
C18_OwnArtifact ==
    \A id \in DOMAIN rewritten :
        load(interfaceSourceCodeMap, rewritten[id].virtualSource)
            = build(loadTsFileAsString(rewritten[id].sourceId), TRUE)

\* both builds have made their call
BothCalled == phase = "optional"

====
